---- MODULE Spec2Model ----
(***************************************************************************)
(* Model of the clip-generation pipeline of backend/main.py and            *)
(* backend/url_handler.py: the peak detector (detect_visual_peaks), the    *)
(* job orchestrator (process_video, download_and_process), the request     *)
(* handlers (handle_process, get_status) and the shared state they work    *)
(* on: the jobs dictionary and the uploads and clips directories.          *)
(***************************************************************************)
EXTENDS Integers, Sequences, FiniteSets, TLC

(***************************************************************************)
(* Bounds of the model.                                                    *)
(***************************************************************************)
\* number of job ids handed out by handle_process
NumJobs == 2
\* largest number of samples of an exhaustively enumerated video
MaxSamples == 6
\* number of samples of the long videos with few moving samples
LongSamples == 36
\* largest motion score of a sample of an enumerated video
MaxScore == 1

(***************************************************************************)
(* Program constants.                                                      *)
(***************************************************************************)
\* detect_visual_peaks(video_path, num_clips=4)
num_clips == 4
\* fps = cap.get(cv2.CAP_PROP_FPS) or 30, in thousandths of a frame per second
DefaultFpsMilli == 30000
\* all(abs(timestamp - p) > 30 for p in peaks), seconds
MinSeparation == 30
\* peaks.append(max(0, timestamp - 1)), seconds
LeadIn == 1

(***************************************************************************)
(* Arithmetic helpers.                                                     *)
(***************************************************************************)
Abs(x) == IF x < 0 THEN -x ELSE x
Max(a, b) == IF a >= b THEN a ELSE b
Min(a, b) == IF a <= b THEN a ELSE b

(***************************************************************************)
(* PEAK DETECTOR                                                           *)
(*                                                                         *)
(* A video is what cv2.VideoCapture reports of a file:                     *)
(*   fps         CAP_PROP_FPS in thousandths (0: unavailable),             *)
(*   frames      CAP_PROP_FRAME_COUNT,                                     *)
(*   first_ok    whether the first cap.read() returns a frame,             *)
(*   fail_at     the number of sampled reads that succeed before one       *)
(*               fails (a value >= the number of samples: none fails),     *)
(*   score       score[k] is np.sum(absdiff) of the k-th sampled frame     *)
(*               against the preceding sample, for k >= 2.                 *)
(*                                                                         *)
(* Times are exact rationals: a time of t seconds is kept as the integer   *)
(* t * fps_milli, so frame_no / fps is frame_no * 1000, one second is      *)
(* fps_milli and thirty seconds are 30 * fps_milli.                        *)
(***************************************************************************)
\* fps = cap.get(cv2.CAP_PROP_FPS) or 30
EffectiveFps(v) == IF v.fps = 0 THEN DefaultFpsMilli ELSE v.fps

\* step = max(1, int(fps * 2))
Step(v) == Max(1, (EffectiveFps(v) * 2) \div 1000)

\* range(0, total_frames, step) as the sequence of its frame numbers
FrameRange(v) ==
    LET n == IF v.frames <= 0 THEN 0 ELSE ((v.frames - 1) \div Step(v)) + 1
    IN  [k \in 1..n |-> (k - 1) * Step(v)]

\* seconds -> the time unit of video v
Seconds(v, s) == s * EffectiveFps(v)

\* frame_no / fps in the time unit of video v
Timestamp(v, frame_no) == frame_no * 1000

\* score = np.sum(cv2.absdiff(prev_gray, gray)) of the k-th sample: the first
\* sample is frame 0 read again after cap.set(POS_FRAMES, 0) and compared with
\* frame 0 as read before the loop, so its difference is 0
SampleScore(v, k) == IF k = 1 THEN 0 ELSE v.score[k]

\* the scan loop: scores.append((frame_no / fps, score)) until a read fails
Scan(v) ==
    LET r == FrameRange(v)
        n == Min(Len(r), v.fail_at)
    IN  [k \in 1..n |-> [ts |-> Timestamp(v, r[k]), score |-> SampleScore(v, k)]]

\* list.sort(key=lambda x: x[1], reverse=True): descending by score and
\* stable, so a sample comes after every sample of a higher score and after
\* the earlier samples of its own score. Place(s, k) is where s[k] lands.
Place(s, k) ==
    1 + Cardinality({m \in 1..Len(s) :
                        \/ s[m].score > s[k].score
                        \/ s[m].score = s[k].score /\ m < k})

\* the sort without reverse=True: ascending by score, stable
SortDesc_ascending(s) ==
    [i \in 1..Len(s) |->
        s[CHOOSE k \in 1..Len(s) :
            i = 1 + Cardinality({m \in 1..Len(s) :
                                    \/ s[m].score < s[k].score
                                    \/ s[m].score = s[k].score /\ m < k})]]

SortDesc(s) ==
    [i \in 1..Len(s) |-> s[CHOOSE k \in 1..Len(s) : Place(s, k) = i]]

\* the separation test: all(abs(timestamp - p) > 30 for p in peaks)
FarFromAll(v, timestamp, peaks) ==
    \A i \in 1..Len(peaks) : Abs(timestamp - peaks[i]) > Seconds(v, MinSeparation)

\* the reported start: max(0, timestamp - 1)
Shifted(v, timestamp) == Max(0, timestamp - Seconds(v, LeadIn))

\* the selection loop over the ranked samples:
\*     for timestamp, _ in scores:
\*         if len(peaks) >= num_clips: break
\*         if all(...): peaks.append(max(0, timestamp - 1))
RECURSIVE Select(_, _, _)
Select(v, ranked, peaks) ==
    IF ranked = <<>> THEN peaks
    ELSE IF Len(peaks) >= num_clips THEN peaks
    ELSE IF FarFromAll(v, Head(ranked).ts, peaks)
         THEN Select(v, Tail(ranked), Append(peaks, Shifted(v, Head(ranked).ts)))
         ELSE Select(v, Tail(ranked), peaks)

\* the peaks returned in the order of their acceptance
SortAsc_unsorted(s) == s

\* sorted(peaks): ascending; PlaceAsc(s, k) is where s[k] lands
PlaceAsc(s, k) ==
    1 + Cardinality({m \in 1..Len(s) : s[m] < s[k] \/ (s[m] = s[k] /\ m < k)})

SortAsc(s) ==
    [i \in 1..Len(s) |-> s[CHOOSE k \in 1..Len(s) : PlaceAsc(s, k) = i]]

\* return [5, 15, 25, 35]
Fallback(v) ==
    <<Seconds(v, 5), Seconds(v, 15), Seconds(v, 25), Seconds(v, 35)>>

\* the peaks list before the final return
SelectedPeaks(v) == Select(v, SortDesc(Scan(v)), <<>>)

\* detect_visual_peaks returning sorted(peaks) even when peaks is empty
detect_visual_peaks_no_fallback(v) ==
    IF ~v.first_ok THEN Fallback(v) ELSE SortAsc(SelectedPeaks(v))

\* detect_visual_peaks(video_path): the returned list
detect_visual_peaks(v) ==
    IF ~v.first_ok THEN Fallback(v)
    ELSE IF SelectedPeaks(v) # <<>> THEN SortAsc(SelectedPeaks(v))
    ELSE Fallback(v)

(***************************************************************************)
(* Enumerated videos.                                                      *)
(***************************************************************************)
\* frame rates in thousandths: unavailable, 0.025, 0.05, 0.1, 0.25, 23.976,
\* 29.97, 30
FpsSet == {0, 25, 50, 100, 250, 23976, 29970, 30000}

\* the frame counts of a video of frame rate fps that yield n samples
FrameCounts(fps, n) ==
    LET st == Step([fps |-> fps])
    IN  IF n = 0 THEN {0} ELSE {(n - 1) * st + 1, n * st}

\* every video of up to MaxSamples samples, every score in 0..MaxScore
ShortVideos ==
    UNION { UNION { UNION {
        { [fps |-> fps, frames |-> fr, first_ok |-> TRUE, fail_at |-> fa, score |-> sc] :
            sc \in [2..Min(n, fa) -> 0..MaxScore] }
        : fa \in (0..n) \cup {MaxSamples + 1} }
        : fr \in FrameCounts(fps, n) }
        : fps \in FpsSet, n \in 0..MaxSamples }

\* videos whose first frame cannot be read
UnreadableVideos ==
    { [fps |-> fps, frames |-> fr, first_ok |-> FALSE, fail_at |-> 0, score |-> [k \in {} |-> 0]] :
        fps \in FpsSet, fr \in {0, MaxSamples} }

\* 30 fps videos of LongSamples samples, static but for at most two samples
LongVideos ==
    { [fps |-> DefaultFpsMilli, frames |-> LongSamples * 60, first_ok |-> TRUE,
       fail_at |-> LongSamples + 1,
       score |-> [k \in 2..LongSamples |->
                    IF k = a THEN x ELSE IF k = b THEN y ELSE 0]] :
        a \in 2..LongSamples, b \in 2..LongSamples,
        x \in 0..MaxScore, y \in 0..MaxScore }

\* 60 s videos at 24, 25 and 30 fps, sampled every 2 s (30 samples), static
\* but for the sample at t = 20 s (the 11th)
SceneCutVideos ==
    { [fps |-> fps, frames |-> 60 * (fps \div 1000), first_ok |-> TRUE,
       fail_at |-> 31,
       score |-> [k \in 2..30 |-> IF k = 11 THEN x ELSE 0]] :
        fps \in {24000, 25000, 30000}, x \in 1..MaxScore }

PeakVideos == ShortVideos \cup UnreadableVideos \cup LongVideos \cup SceneCutVideos

(***************************************************************************)
(* JOBS                                                                    *)
(***************************************************************************)
\* the ids uuid.uuid4() hands out, in the order of the requests
JobIds == 1..NumJobs

\* an id no request was given
UnknownId == 0

\* what cv2.VideoCapture reports of a path that does not exist
MissingVideo ==
    [fps |-> 0, frames |-> 0, first_ok |-> FALSE, fail_at |-> 0,
     score |-> [k \in {} |-> 0]]

\* 64 s at 30 fps with a cut at t = 2 s: three peaks
ThreePeakVideo ==
    [fps |-> 30000, frames |-> 1920, first_ok |-> TRUE, fail_at |-> 33,
     score |-> [k \in 2..32 |-> IF k = 2 THEN 1 ELSE 0]]

\* the contents a request can bring, by name
JobVideos == {"three_peaks"}

\* what cv2.VideoCapture reports of a file of the given content
VideoOf(content) == IF content = "three_peaks" THEN ThreePeakVideo ELSE MissingVideo

\* os.path.join(UPLOADS_DIR, f"{job_id}.mp4")
InputPath(j) == <<"job", j>>

\* os.path.join(upload_folder, f"video_{uuid.uuid4().hex}.mp4") of job j's fetch
FetchPath(j) == <<"video", j>>

\* download_video returned None
None == <<"None", 0>>

\* f"{job_id}_clip{index + 1}.mp4"
ClipName(j, k) == <<j, k>>

\* f"Processing clip {index+1}"
ProcessingClip(k) ==
    <<"Processing clip 1", "Processing clip 2",
      "Processing clip 3", "Processing clip 4">>[k]

\* the entries written to the jobs dictionary; clips = <<>> stands for an
\* entry without the "clips" key
StartingEntry == [status |-> "starting", clips |-> <<>>]
DoneEntry(generated_clips) == [status |-> "done", clips |-> generated_clips]
ErrorEntry == [status |-> "error", clips |-> <<>>]

\* the entry numbered from 0: index where the code has index + 1
ClipResult_zero_based(j, k) == [name |-> k - 1, url |-> ClipName(j, k - 1)]

\* {"name": f"Clip {index + 1}", "url": ".../stream/{clip_name}"}
ClipResult(j, k) == [name |-> k, url |-> ClipName(j, k)]

(***************************************************************************)
(* State.                                                                  *)
(***************************************************************************)
VARIABLES
    jobs,           \* the jobs dictionary: job id -> entry
    uploads,        \* UPLOADS_DIR: path -> name of the content of the file
    clips_dir,      \* CLIPS_DIR: the clip files that exist
    pc,             \* per job: where its handler or thread stands
    path,           \* per job: local path of download_and_process, until its last use
    peaks,          \* per job: local peaks of process_video
    generated,      \* per job: local generated_clips of process_video
    ffmpeg_failed,  \* per job: some ffmpeg run returned non-zero (history)
    analysis,       \* content -> what detect_visual_peaks returns on it (it
                    \* is a function of the file alone, so this never changes)
    calls,          \* per job: the calls of detect_visual_peaks, ffmpeg and
                    \* os.remove its thread has made, in order (history)
    response,       \* what the step just taken returned to a get_status caller
    video,          \* detector: the video given to detect_visual_peaks
    detector_pc,    \* detector: "call" before the call, "return" after it
    returned        \* detector: the list detect_visual_peaks returned

job_vars == <<jobs, uploads, clips_dir, pc, path, peaks, generated,
              ffmpeg_failed, analysis, calls, response>>
detector_vars == <<video, detector_pc, returned>>
vars == <<jobs, uploads, clips_dir, pc, path, peaks, generated,
          ffmpeg_failed, analysis, calls, response, video, detector_pc,
          returned>>

\* the ids handle_process has assigned
Assigned == {j \in JobIds : pc[j] # "idle"}

Exists(f) == f \in DOMAIN uploads

\* the directory after writing or removing a file
WithFile(dir, f, content) ==
    [g \in DOMAIN dir \cup {f} |-> IF g = f THEN content ELSE dir[g]]
WithoutFile(dir, f) == [g \in DOMAIN dir \ {f} |-> dir[g]]

\* os.rename(src, dst)
Renamed(dir, src, dst) == WithFile(WithoutFile(dir, src), dst, dir[src])

\* jobs[job_id]["status"] = s
WithStatus(j, s) == [jobs EXCEPT ![j].status = s]

\* jobs[job_id] = entry
WithEntry(j, entry) ==
    [i \in DOMAIN jobs \cup {j} |-> IF i = j THEN entry ELSE jobs[i]]

\* no get_status call returned in this step
NoResponse == [id |-> UnknownId, status |-> "none", clips |-> <<>>]

\* the thread of job j ends: its locals are gone
ThreadEnds(j, how) ==
    /\ pc' = [pc EXCEPT ![j] = how]
    /\ path' = [path EXCEPT ![j] = None]
    /\ peaks' = [peaks EXCEPT ![j] = <<>>]
    /\ generated' = [generated EXCEPT ![j] = <<>>]

JobInit ==
    /\ jobs = [j \in {} |-> StartingEntry]
    /\ uploads = [f \in {} |-> "three_peaks"]
    /\ clips_dir = {}
    /\ pc = [j \in JobIds |-> "idle"]
    /\ path = [j \in JobIds |-> None]
    /\ peaks = [j \in JobIds |-> <<>>]
    /\ generated = [j \in JobIds |-> <<>>]
    /\ ffmpeg_failed = [j \in JobIds |-> FALSE]
    /\ analysis = [content \in JobVideos \cup {"missing"} |->
                     detect_visual_peaks(VideoOf(content))]
    /\ calls = [j \in JobIds |-> <<>>]
    /\ response = NoResponse

DetectorIdle ==
    /\ video = MissingVideo
    /\ detector_pc = "idle"
    /\ returned = <<>>

Init == JobInit /\ DetectorIdle

(***************************************************************************)
(* handle_process                                                          *)
(***************************************************************************)
\* handle_process with the seeding of the entry left out
handle_process_unseeded(j, has_video, has_url) ==
    /\ pc[j] = "idle"
    /\ \A i \in JobIds : i < j => pc[i] # "idle"
    /\ pc' = [pc EXCEPT ![j] = IF has_video THEN "upload"
                               ELSE IF has_url THEN "download"
                               ELSE "no_thread"]
    /\ response' = NoResponse
    /\ UNCHANGED <<jobs, uploads, clips_dir, path, peaks, generated,
                   ffmpeg_failed, analysis, calls, detector_vars>>

\* POST /process: job_id = uuid4(); jobs[job_id] = {"status": "starting"};
\* then the upload branch, the url branch (its thread is started), or neither
handle_process(j, has_video, has_url) ==
    /\ pc[j] = "idle"
    /\ \A i \in JobIds : i < j => pc[i] # "idle"
    /\ jobs' = WithEntry(j, StartingEntry)
    /\ pc' = [pc EXCEPT ![j] = IF has_video THEN "upload"
                               ELSE IF has_url THEN "download"
                               ELSE "no_thread"]
    /\ response' = NoResponse
    /\ UNCHANGED <<uploads, clips_dir, path, peaks, generated, ffmpeg_failed,
                   analysis, calls, detector_vars>>

\* the upload branch: the body is written to input_path and the thread
\* running process_video is started
upload(j, content) ==
    /\ pc[j] = "upload"
    /\ uploads' = WithFile(uploads, InputPath(j), content)
    /\ pc' = [pc EXCEPT ![j] = "process_video"]
    /\ response' = NoResponse
    /\ UNCHANGED <<jobs, clips_dir, path, peaks, generated, ffmpeg_failed,
                   analysis, calls, detector_vars>>

(***************************************************************************)
(* download_video (url_handler.py) and download_and_process                *)
(***************************************************************************)
\* the paths download_video can return when ydl.download did not raise and
\* left the directory as dir: filepath if it exists, else any file of the
\* folder ending in .mp4 (os.listdir order is arbitrary), else None
DownloadResult(j, dir) ==
    IF FetchPath(j) \in DOMAIN dir THEN {FetchPath(j)}
    ELSE IF DOMAIN dir # {} THEN DOMAIN dir
    ELSE {None}

\* path = download_video(url, UPLOADS_DIR): ydl.download raises (None is
\* returned), or it returns having written filepath, or it returns without
\* that file
download_video(j, outcome, content) ==
    /\ pc[j] = "download"
    /\ uploads' = IF outcome = "file"
                  THEN WithFile(uploads, FetchPath(j), content)
                  ELSE uploads
    /\ \E p \in (IF outcome = "raise" THEN {None} ELSE DownloadResult(j, uploads')) :
          path' = [path EXCEPT ![j] = p]
    /\ pc' = [pc EXCEPT ![j] = "downloaded"]
    /\ response' = NoResponse
    /\ UNCHANGED <<jobs, clips_dir, peaks, generated, ffmpeg_failed,
                   analysis, calls, detector_vars>>

\* download_and_process after download_video: rename and process, or error.
\* os.rename of a path that no longer exists raises outside any try and the
\* thread ends there
download_and_process(j) ==
    /\ pc[j] = "downloaded"
    /\ IF path[j] # None
       THEN IF Exists(path[j])
            THEN /\ uploads' = Renamed(uploads, path[j], InputPath(j))
                 /\ pc' = [pc EXCEPT ![j] = "process_video"]
                 /\ path' = [path EXCEPT ![j] = None]
                 /\ UNCHANGED <<jobs, peaks, generated>>
            ELSE /\ ThreadEnds(j, "crashed")
                 /\ UNCHANGED <<jobs, uploads>>
       ELSE /\ jobs' = WithStatus(j, "error")
            /\ ThreadEnds(j, "end")
            /\ UNCHANGED uploads
    /\ response' = NoResponse
    /\ UNCHANGED <<clips_dir, ffmpeg_failed, analysis, calls, detector_vars>>

(***************************************************************************)
(* process_video                                                           *)
(***************************************************************************)
\* jobs[job_id]["status"] = "processing"
set_processing(j) ==
    /\ pc[j] = "process_video"
    /\ jobs' = WithStatus(j, "processing")
    /\ pc' = [pc EXCEPT ![j] = "detect"]
    /\ response' = NoResponse
    /\ UNCHANGED <<uploads, clips_dir, path, peaks, generated, ffmpeg_failed,
                   analysis, calls, detector_vars>>

\* what cv2.VideoCapture(input_video) opens
InputVideo(j) ==
    IF Exists(InputPath(j)) THEN uploads[InputPath(j)] ELSE "missing"

\* the except clause keeping the clips generated so far in the entry
except_handler_partial(j) ==
    /\ jobs' = WithEntry(j, [status |-> "error", clips |-> generated[j]])
    /\ ThreadEnds(j, "end")

\* except Exception as e: jobs[job_id] = {"status": "error"}, reached from
\* the raise in the same step, and the thread ends
except_handler(j) ==
    /\ jobs' = WithEntry(j, ErrorEntry)
    /\ ThreadEnds(j, "end")

\* the call detect_visual_peaks(input_video) and the list it returned
DetectCall(j, result) == [op |-> "detect", peaks |-> result, status |-> jobs[j].status]

\* peaks = detect_visual_peaks(input_video); generated_clips = []
\* (an exception raised inside OpenCV goes to the except clause)
detect(j, raises) ==
    /\ pc[j] = "detect"
    /\ IF raises
       THEN except_handler(j) /\ UNCHANGED calls
       ELSE /\ peaks' = [peaks EXCEPT ![j] = analysis[InputVideo(j)]]
            /\ calls' = [calls EXCEPT ![j] =
                            Append(@, DetectCall(j, analysis[InputVideo(j)]))]
            /\ generated' = [generated EXCEPT ![j] = <<>>]
            /\ pc' = [pc EXCEPT ![j] = "loop"]
            /\ UNCHANGED <<jobs, path>>
    /\ response' = NoResponse
    /\ UNCHANGED <<uploads, clips_dir, ffmpeg_failed, analysis, detector_vars>>

\* begin_clip publishing the clips generated so far with the progress
begin_clip_publishing(j) ==
    /\ pc[j] = "loop"
    /\ Len(generated[j]) < Len(peaks[j])
    /\ jobs' = WithEntry(j, [status |-> ProcessingClip(Len(generated[j]) + 1),
                             clips |-> generated[j]])
    /\ pc' = [pc EXCEPT ![j] = "ffmpeg"]
    /\ response' = NoResponse
    /\ UNCHANGED <<uploads, clips_dir, path, peaks, generated, ffmpeg_failed,
                   analysis, calls, detector_vars>>

\* for index, start in enumerate(peaks):
\*     jobs[job_id]["status"] = f"Processing clip {index+1}"
begin_clip(j) ==
    /\ pc[j] = "loop"
    /\ Len(generated[j]) < Len(peaks[j])
    /\ jobs' = WithStatus(j, ProcessingClip(Len(generated[j]) + 1))
    /\ pc' = [pc EXCEPT ![j] = "ffmpeg"]
    /\ response' = NoResponse
    /\ UNCHANGED <<uploads, clips_dir, path, peaks, generated, ffmpeg_failed,
                   analysis, calls, detector_vars>>

\* the results subprocess.run(cmd) can have: ffmpeg cannot succeed on an
\* input file that does not exist
FfmpegResults(j) == IF Exists(InputPath(j)) THEN {0, 1} ELSE {1}

\* the k-th run of the loop: ffmpeg -ss str(start) -i input_video ...
\* output_path, with the returncode it gave and the status of the job then
FfmpegRun(j, k, returncode) ==
    [op |-> "ffmpeg", start |-> peaks[j][k], output |-> ClipName(j, k),
     returncode |-> returncode, status |-> jobs[j].status]

\* os.remove(input_video), whether it removed the file, and the status of
\* the job then
RemoveCall(j, ok) == [op |-> "remove", ok |-> ok, status |-> jobs[j].status]

\* run_ffmpeg whose output file lands outside CLIPS_DIR
run_ffmpeg_elsewhere(j, returncode) ==
    /\ pc[j] = "ffmpeg"
    /\ returncode \in FfmpegResults(j)
    /\ calls' = [calls EXCEPT ![j] =
                    Append(@, FfmpegRun(j, Len(generated[j]) + 1, returncode))]
    /\ LET k == Len(generated[j]) + 1 IN
       IF returncode # 0
       THEN /\ ffmpeg_failed' = [ffmpeg_failed EXCEPT ![j] = TRUE]
            /\ except_handler(j)
       ELSE /\ generated' = [generated EXCEPT ![j] = Append(@, ClipResult(j, k))]
            /\ pc' = [pc EXCEPT ![j] = "loop"]
            /\ UNCHANGED <<jobs, path, peaks, ffmpeg_failed>>
    /\ response' = NoResponse
    /\ UNCHANGED <<uploads, clips_dir, analysis, detector_vars>>

\* run_ffmpeg running the same command again after a non-zero returncode
run_ffmpeg_retrying(j, returncode) ==
    /\ pc[j] = "ffmpeg"
    /\ returncode \in {0, 1}
    /\ calls' = [calls EXCEPT ![j] =
                    Append(@, FfmpegRun(j, Len(generated[j]) + 1, returncode))]
    /\ LET k == Len(generated[j]) + 1 IN
       IF returncode # 0
       THEN UNCHANGED <<jobs, clips_dir, pc, path, peaks, generated, ffmpeg_failed>>
       ELSE /\ clips_dir' = clips_dir \cup {ClipName(j, k)}
            /\ generated' = [generated EXCEPT ![j] = Append(@, ClipResult(j, k))]
            /\ pc' = [pc EXCEPT ![j] = "loop"]
            /\ UNCHANGED <<jobs, path, peaks, ffmpeg_failed>>
    /\ response' = NoResponse
    /\ UNCHANGED <<uploads, analysis, detector_vars>>

\* result = subprocess.run(cmd); raise on a non-zero returncode, else
\* generated_clips.append({...})
run_ffmpeg(j, returncode) ==
    /\ pc[j] = "ffmpeg"
    /\ returncode \in FfmpegResults(j)
    /\ calls' = [calls EXCEPT ![j] =
                    Append(@, FfmpegRun(j, Len(generated[j]) + 1, returncode))]
    /\ LET k == Len(generated[j]) + 1 IN
       IF returncode # 0
       THEN /\ ffmpeg_failed' = [ffmpeg_failed EXCEPT ![j] = TRUE]
            /\ except_handler(j)
            /\ UNCHANGED clips_dir
       ELSE /\ clips_dir' = clips_dir \cup {ClipName(j, k)}
            /\ generated' = [generated EXCEPT ![j] = Append(@, ClipResult(j, k))]
            /\ pc' = [pc EXCEPT ![j] = "loop"]
            /\ UNCHANGED <<jobs, path, peaks, ffmpeg_failed>>
    /\ response' = NoResponse
    /\ UNCHANGED <<uploads, analysis, detector_vars>>

\* jobs[job_id] = {"status": "done", "clips": generated_clips}
set_done(j) ==
    /\ pc[j] = "loop"
    /\ Len(generated[j]) >= Len(peaks[j])
    /\ jobs' = WithEntry(j, DoneEntry(generated[j]))
    /\ pc' = [pc EXCEPT ![j] = "remove"]
    /\ response' = NoResponse
    /\ UNCHANGED <<uploads, clips_dir, path, peaks, generated, ffmpeg_failed,
                   analysis, calls, detector_vars>>

\* os.remove(input_video): raises if the file does not exist
remove_input(j) ==
    /\ pc[j] = "remove"
    /\ calls' = [calls EXCEPT ![j] = Append(@, RemoveCall(j, Exists(InputPath(j))))]
    /\ IF Exists(InputPath(j))
       THEN /\ uploads' = WithoutFile(uploads, InputPath(j))
            /\ ThreadEnds(j, "end")
            /\ UNCHANGED jobs
       ELSE /\ except_handler(j)
            /\ UNCHANGED uploads
    /\ response' = NoResponse
    /\ UNCHANGED <<clips_dir, ffmpeg_failed, analysis, detector_vars>>

(***************************************************************************)
(* get_status                                                              *)
(***************************************************************************)
\* jobs.get(job_id, {"status": "not_found"})
Lookup(id) ==
    IF id \in DOMAIN jobs THEN jobs[id] ELSE [status |-> "not_found", clips |-> <<>>]

\* GET /status/{job_id}
get_status(id) ==
    /\ response' = [id |-> id, status |-> Lookup(id).status, clips |-> Lookup(id).clips]
    /\ UNCHANGED <<jobs, uploads, clips_dir, pc, path, peaks, generated,
                   ffmpeg_failed, analysis, calls, detector_vars>>

(***************************************************************************)
(* stream_video                                                            *)
(***************************************************************************)
\* GET /stream/{file_name}: the file if it exists in CLIPS_DIR, else 404; it
\* reads the directory and changes nothing
stream_video(file_name) ==
    IF file_name \in clips_dir THEN "file" ELSE "not_found"

(***************************************************************************)
(* Specifications.                                                         *)
(***************************************************************************)
\* a step of the request handler of job j
HandlerStep(j) ==
    \/ \E has_video \in BOOLEAN, has_url \in BOOLEAN : handle_process(j, has_video, has_url)
    \/ \E content \in JobVideos : upload(j, content)

\* a step of the background thread of job j
ThreadStep(j) ==
    \/ \E outcome \in {"raise", "file", "no_file"}, content \in JobVideos :
          download_video(j, outcome, content)
    \/ download_and_process(j)
    \/ set_processing(j)
    \/ \E raises \in BOOLEAN : detect(j, raises)
    \/ begin_clip(j)
    \/ \E returncode \in {0, 1} : run_ffmpeg(j, returncode)
    \/ set_done(j)
    \/ remove_input(j)

JobStep(j) == HandlerStep(j) \/ ThreadStep(j)

Next ==
    \/ \E j \in JobIds : JobStep(j)
    \/ \E id \in JobIds \cup {UnknownId} : get_status(id)

Spec == Init /\ [][Next]_vars

\* every started thread keeps being scheduled, and an upload in progress
\* completes; no request is ever forced to arrive
FairSpec ==
    /\ Init
    /\ [][Next]_vars
    /\ \A j \in JobIds : WF_vars(ThreadStep(j))
    /\ \A j \in JobIds : WF_vars(\E content \in JobVideos : upload(j, content))

(***************************************************************************)
(* Properties of the jobs.                                                 *)
(***************************************************************************)
Terminal == {"done", "error"}
Processing == {"processing"} \cup {ProcessingClip(k) : k \in 1..num_clips}

\* the place of a status on the path starting -> processing (clip 1, 2, ..)
\* -> done | error
StatusRank(s) ==
    CASE s = "starting" -> 0
      [] s = "processing" -> 1
      [] s \in Terminal -> num_clips + 2
      [] OTHER -> 1 + CHOOSE k \in 1..num_clips : s = ProcessingClip(k)

\* one move along starting -> processing -> done | error
ValidMove(s, t) ==
    \/ s = t
    \/ s = "starting" /\ t = "processing"
    \/ s \in Processing /\ t \in Processing /\ StatusRank(s) < StatusRank(t)
    \/ s \in Processing /\ t \in Terminal

\* C1: the statuses of a job that get_status can return over time follow
\* starting -> processing -> done or starting -> processing -> error: an
\* entry appears as starting, and every change of a status is a move forward
\* on that path (the clip progress values being sub-states of processing)
C1_StatusPath ==
    [][ /\ \A j \in DOMAIN jobs' \ DOMAIN jobs : jobs'[j].status = "starting"
        /\ \A j \in DOMAIN jobs : ValidMove(jobs[j].status, jobs'[j].status) ]_vars

\* C2: done and error are terminal: no step of any thread changes the status
\* or the clips of an entry whose status is done or error
C2_TerminalIsFinal ==
    [][ \A j \in DOMAIN jobs :
          jobs[j].status \in Terminal => jobs'[j] = jobs[j] ]_vars

\* C3: an entry has a non-empty clips list if and only if its status is
\* done, in the dictionary and in every get_status response, and the entry
\* written with done holds one clip for every peak
C3_ClipsIffDone ==
    /\ \A j \in DOMAIN jobs : (jobs[j].clips # <<>>) <=> (jobs[j].status = "done")
    /\ (response.clips # <<>>) <=> (response.status = "done")
    /\ \A j \in JobIds : pc[j] = "remove" =>
          /\ jobs[j].clips = generated[j]
          /\ Len(generated[j]) = Len(peaks[j])

\* a job is done, with its three clips, and a get_status call has just seen it
C3_Witness ==
    \E j \in DOMAIN jobs :
        /\ jobs[j].status = "done"
        /\ Len(jobs[j].clips) = 3
        /\ response = [id |-> j, status |-> "done", clips |-> jobs[j].clips]

\* C4: once ffmpeg has returned non-zero for a candidate of a job, the status
\* of the job is error and its entry holds no clips, whatever was extracted
\* before the failure
C4_FailedExtractionIsError ==
    \A j \in JobIds : ffmpeg_failed[j] =>
        /\ jobs[j].status = "error"
        /\ jobs[j].clips = <<>>

\* the extraction of the last of three candidates failed after the first two
\* had been extracted
C4_Witness ==
    \E j \in JobIds :
        /\ ffmpeg_failed[j]
        /\ {ClipName(j, 1), ClipName(j, 2)} \subseteq clips_dir
        /\ ClipName(j, 3) \notin clips_dir

\* C5: the input file of a job whose status is done or error does not exist
C5_NoInputWhenTerminal ==
    \A j \in DOMAIN jobs :
        jobs[j].status \in Terminal => ~Exists(InputPath(j))

\* C6: a job created with neither a video nor a url eventually has status
\* error
C6_NoInputBecomesError ==
    \A j \in JobIds : (pc[j] = "no_thread") ~> (Lookup(j).status = "error")

\* C7: a background thread never ends with its job left non-terminal:
\* whatever failed in it, the status of the job is then done or error
C7_ThreadEndsTerminal ==
    \A j \in JobIds : pc[j] \in {"end", "crashed"} => jobs[j].status \in Terminal

\* the files of job a in the uploads directory
FilesOf(a) == {InputPath(a), FetchPath(a)}

\* C8: jobs are independent: no step of a job b moves, renames or deletes a
\* file of another job a, or writes the entry of a
C8_Independent ==
    [][ \A a \in JobIds, b \in JobIds : (a # b /\ JobStep(b)) =>
          /\ \A f \in FilesOf(a) : (f \in DOMAIN uploads) => (f \in DOMAIN uploads')
          /\ (a \in DOMAIN jobs) => (jobs'[a] = jobs[a]) ]_vars

\* C9: get_status returns not_found for an id if and only if handle_process
\* has not assigned that id, at every moment and in every response, and a
\* get_status call leaves the dictionary as it was
C9_NotFoundIffNeverCreated ==
    /\ [](\A id \in JobIds \cup {UnknownId} :
            (Lookup(id).status = "not_found") <=> (id \notin Assigned))
    /\ [](response.status # "none" =>
            ((response.status = "not_found") <=> (response.id \notin Assigned)))
    /\ [][ \A id \in JobIds \cup {UnknownId} : get_status(id) => jobs' = jobs ]_vars

\* a job whose thread has not run yet was just seen as starting, while
\* another id is not assigned yet
C9_Witness ==
    /\ response.id \in Assigned
    /\ response.status = "starting"
    /\ pc[response.id] \in {"upload", "download"}
    /\ Assigned # JobIds

(***************************************************************************)
(* The peak detector applied to every enumerated video.                    *)
(***************************************************************************)
PeakInit ==
    /\ JobInit
    /\ video \in PeakVideos
    /\ detector_pc = "call"
    /\ returned = <<>>

\* one call of detect_visual_peaks
Detect ==
    /\ detector_pc = "call"
    /\ returned' = detect_visual_peaks(video)
    /\ detector_pc' = "return"
    /\ UNCHANGED <<video, job_vars>>

PeakNext == Detect

PeakSpec == PeakInit /\ [][PeakNext]_vars

\* samples were recorded: the list comes from the analysis, not the fallback
RealAnalysis(v) == v.first_ok /\ Scan(v) # <<>>

\* C10: no two start times returned from real analysis are within 30 seconds
\* of each other: every pair differs by more than 30 seconds
C10_MinSeparation ==
    (detector_pc = "return" /\ RealAnalysis(video)) =>
        \A i \in 1..Len(returned) : \A j \in 1..Len(returned) :
            i # j => Abs(returned[i] - returned[j]) > Seconds(video, MinSeparation)

\* C11: on a video whose first frame can be read, whatever its frame count,
\* frame rate and the position of a failing read, detect_visual_peaks returns
\* a non-empty list of at most num_clips timestamps, ascending, each >= 0
C11_WellFormed ==
    (detector_pc = "return" /\ video.first_ok) =>
        /\ Len(returned) \in 1..num_clips
        /\ \A i \in 1..Len(returned) : returned[i] >= 0
        /\ \A i \in 1..Len(returned) - 1 : returned[i] <= returned[i + 1]

\* a scan that a failing read cut short recorded more than num_clips
\* samples, and num_clips peaks came back from it, not in ranking order
C11_Witness ==
    /\ detector_pc = "return"
    /\ video.first_ok
    /\ video.fail_at < Len(FrameRange(video))
    /\ Len(Scan(video)) > num_clips
    /\ Len(returned) = num_clips
    /\ returned # SelectedPeaks(video)

\* C12: detect_visual_peaks returns [5, 15, 25, 35] when the first frame
\* cannot be read and when it is read but no sample is recorded (frame count
\* 0, or the first sampled read fails), and in no case where a sample was
\* recorded
C12_FallbackIffNoSample ==
    detector_pc = "return" =>
        ((returned = Fallback(video)) <=> (~video.first_ok \/ Scan(video) = <<>>))

\* the first frame was read, the range of frame numbers is not empty, the
\* first sampled read failed, and the fallback came back
C12_Witness ==
    /\ detector_pc = "return"
    /\ video.first_ok
    /\ FrameRange(video) # <<>>
    /\ video.fail_at = 0
    /\ returned = Fallback(video)

\* C13: for a 60-second video sampled every 2 seconds whose only non-zero
\* score is at the sample at t = 20 s, the returned list holds a start time
\* between 19 and 20 seconds
C13_CutAtTwenty ==
    (detector_pc = "return" /\ video \in SceneCutVideos) =>
        \E i \in 1..Len(returned) :
            /\ returned[i] >= Seconds(video, 19)
            /\ returned[i] <= Seconds(video, 20)

\* such a video came back as [19, 49]
C13_Witness ==
    /\ detector_pc = "return"
    /\ video \in SceneCutVideos
    /\ Len(Scan(video)) = 30
    /\ returned = <<Seconds(video, 19), Seconds(video, 49)>>

(***************************************************************************)
(* Properties of the calls a job makes.                                    *)
(***************************************************************************)
\* the ffmpeg runs of job j, in the order they were made
Runs(j) == SelectSeq(calls[j], LAMBDA c : c.op = "ffmpeg")

\* the candidate timestamps detect_visual_peaks returned to job j
Candidates(j) ==
    IF \E i \in 1..Len(calls[j]) : calls[j][i].op = "detect"
    THEN calls[j][CHOOSE i \in 1..Len(calls[j]) : calls[j][i].op = "detect"].peaks
    ELSE <<>>

\* C14: within a job the k-th ffmpeg run is made for the k-th smallest
\* candidate and writes <job id>_clip<k>.mp4, the runs are in strictly
\* ascending order of the start time, a run begins only when all earlier
\* ones have returned successfully, and when the job is done the k-th entry
\* of clips is Clip k of the k-th run, one entry per candidate
C14_ExtractionOrder ==
    \A j \in JobIds :
        /\ Len(Runs(j)) <= Len(Candidates(j))
        /\ \A k \in 1..Len(Runs(j)) :
              /\ Runs(j)[k].start = SortAsc(Candidates(j))[k]
              /\ Runs(j)[k].output = ClipName(j, k)
              /\ k < Len(Runs(j)) =>
                    /\ Runs(j)[k].start < Runs(j)[k + 1].start
                    /\ Runs(j)[k].returncode = 0
        /\ (j \in DOMAIN jobs /\ jobs[j].status = "done") =>
              /\ Len(jobs[j].clips) = Len(Candidates(j))
              /\ Len(jobs[j].clips) = Len(Runs(j))
              /\ \A k \in 1..Len(jobs[j].clips) :
                    /\ jobs[j].clips[k].name = k
                    /\ jobs[j].clips[k].url = Runs(j)[k].output
                    /\ Runs(j)[k].returncode = 0

\* a job is done after three runs, while another job is in its second run
C14_Witness ==
    \E j \in DOMAIN jobs, i \in JobIds :
        /\ j # i
        /\ jobs[j].status = "done"
        /\ Len(Runs(j)) = 3
        /\ Len(Runs(i)) = 1
        /\ pc[i] = "ffmpeg"

\* the os.remove calls of job j that removed its input file
Removals(j) == SelectSeq(calls[j], LAMBDA c : c.op = "remove" /\ c.ok)

\* C15: a job whose thread worked on its input file and ended with status
\* done or error has deleted that file exactly once, the deletion came after
\* the status had become done or error, and the thread made no call on the
\* file after it
C15_InputDeletedOnce ==
    \A j \in DOMAIN jobs :
        (pc[j] = "end" /\ jobs[j].status \in Terminal /\ calls[j] # <<>>) =>
            /\ Len(Removals(j)) = 1
            /\ \A i \in 1..Len(calls[j]) : calls[j][i].op = "remove" =>
                  /\ i = Len(calls[j])
                  /\ calls[j][i].status \in Terminal

(***************************************************************************)
(* The selection loop against the greedy selection on sample timestamps.   *)
(***************************************************************************)
\* walking the ranked samples, a sample is accepted when its timestamp is
\* more than 30 seconds from the timestamp of every accepted sample, up to
\* num_clips of them; the result is the accepted sample timestamps
RECURSIVE GreedyAccepted(_, _, _)
GreedyAccepted(v, ranked, accepted) ==
    IF ranked = <<>> \/ Len(accepted) >= num_clips THEN accepted
    ELSE IF FarFromAll(v, Head(ranked).ts, accepted)
         THEN GreedyAccepted(v, Tail(ranked), Append(accepted, Head(ranked).ts))
         ELSE GreedyAccepted(v, Tail(ranked), accepted)

\* each accepted sample reported as max(0, timestamp - 1)
GreedyPeaks(v) ==
    LET accepted == GreedyAccepted(v, SortDesc(Scan(v)), <<>>)
    IN  [i \in 1..Len(accepted) |-> Shifted(v, accepted[i])]

\* C16: the list returned from real analysis is the greedy selection on the
\* un-shifted sample timestamps: the top-ranked sample is accepted, a later
\* one exactly when it is more than 30 seconds from every accepted sample's
\* own timestamp, at most num_clips, each reported as max(0, timestamp - 1)
C16_GreedyReference ==
    (detector_pc = "return" /\ RealAnalysis(video)) =>
        returned = SortAsc(GreedyPeaks(video))

\* C17: a job runs ffmpeg at most once for each candidate timestamp, and
\* a run that returned non-zero is the last call its thread makes
C17_NoRetry ==
    \A j \in JobIds :
        /\ \A a \in 1..Len(Runs(j)), b \in 1..Len(Runs(j)) :
              a # b => Runs(j)[a].start # Runs(j)[b].start
        /\ \A i \in 1..Len(calls[j]) :
              (calls[j][i].op = "ffmpeg" /\ calls[j][i].returncode # 0) =>
                  i = Len(calls[j])

\* the second of three candidates failed after the first had succeeded: two
\* runs were made and the thread has ended
C17_Witness ==
    \E j \in JobIds :
        /\ pc[j] = "end"
        /\ Len(Candidates(j)) = 3
        /\ Len(Runs(j)) = 2
        /\ Runs(j)[1].returncode = 0
        /\ Runs(j)[2].returncode # 0

\* round(fps * 2) of the frame rate of video v, halves rounded up
RoundedStride(v) == (EffectiveFps(v) * 2 + 500) \div 1000

\* C18: for every frame rate, non-integer ones included, consecutive samples
\* of the scan are max(1, round(fps * 2)) frames apart, and a frame rate
\* reported as 0 is taken as 30 (60 frames apart)
C18_StrideIsRounded ==
    (detector_pc = "return" /\ Len(Scan(video)) >= 2) =>
        /\ Scan(video)[2].ts - Scan(video)[1].ts =
              Timestamp(video, Max(1, RoundedStride(video)))
        /\ video.fps = 0 =>
              Scan(video)[2].ts - Scan(video)[1].ts = Timestamp(video, 60)

\* C19: when a job is done, the file named in every entry of its clips
\* exists in the clips directory, so stream_video returns it, and clips has
\* as many entries as detect_visual_peaks returned candidates
C19_DoneClipsExist ==
    \A j \in DOMAIN jobs : jobs[j].status = "done" =>
        /\ Len(jobs[j].clips) = Len(Candidates(j))
        /\ \A k \in 1..Len(jobs[j].clips) :
              stream_video(jobs[j].clips[k].url) = "file"

\* both jobs are done, three clips each, six files in the clips directory
C19_Witness ==
    /\ DOMAIN jobs = JobIds
    /\ \A j \in JobIds : jobs[j].status = "done" /\ Len(jobs[j].clips) = 3
    /\ Cardinality(clips_dir) = 3 * NumJobs

====
